---- MODULE Spec2Model ----
(***************************************************************************)
(* Model of the menu OCR pipeline: the Menu Structurer                     *)
(* (workers/ocr/worker.py, class OCRProcessor), the Document Assembler     *)
(* (process_ocr_job) and the job loop (main); the upscaling step of        *)
(* OCRProcessor.preprocess; and generate_embeddings_batch and backfill_all  *)
(* of the embeddings worker (workers/embeddings/worker.py).                *)
(*                                                                         *)
(* A Python str is modelled as a sequence of one-character strings, so     *)
(* that lower(), `in`, len(), join() and the price regular expressions     *)
(* are computed character by character.                                    *)
(***************************************************************************)
EXTENDS Integers, Sequences, FiniteSets, TLC

VARIABLES
    \* ---- the jobs table and the stores written by the OCR worker ----
    files,          \* storage: job id -> the pages the job's file decodes to
    status,         \* jobs.status of every OCR job
    result,         \* jobs.result of every OCR job (None until completed)
    error_message,  \* jobs.error_message of every OCR job (None until failed)
    uploaded,       \* storage: the "-ocr-result.json" objects, in upload order
    artifacts,      \* raw_artifacts.ocr_result updates, in order
    parse_jobs,     \* rows of type 'parse' inserted into jobs, in order
    processed,      \* job id -> number of times process_ocr_job was entered for it
    \* ---- one main() loop per worker process ----
    pc,             \* worker -> the statement of main()/process_ocr_job it is at
    job,            \* worker -> the job row held in the local `job` (0: none)
    combined,       \* worker -> the local combined_result (None before it is built)
    pending_error,  \* worker -> the exception e caught at line 378 (None: none)
    \* ---- one call of an OCRProcessor method on given text blocks ----
    text_blocks,    \* the argument text_blocks
    sections_arg,   \* the argument sections of extract_items
    call,           \* the method that was called ("none" before the call)
    ret,            \* the value it returned
    \* ---- one call of OCRProcessor.preprocess ----
    image_shape,    \* height and width of the argument image (None: no call)
    thresh_shape,   \* height and width of the returned image (None before)
    \* ---- one call of EmbeddingsGenerator.generate_embeddings_batch ----
    batch_items,    \* the argument items: the ids of the menu items
    gen_pc,         \* the statement the innermost frame of the call is at
    attempts,       \* calls of openai.Embedding.create made so far
    gen_ret,        \* what the call returned or raised (None before)
    processed_count,\* self.processed_count
    error_count,    \* self.error_count
    \* ---- one call of EmbeddingsGenerator.backfill_all ----
    menu_items,     \* table menu_items: id -> the embedding columns (None: null)
    bf_pc,          \* the statement backfill_all is at ("none": no call)
    stored_upto,    \* results the loop of store_embeddings has gone through
    total_processed \* the local total_processed

worker_vars == <<files, status, result, error_message, uploaded, artifacts,
                 parse_jobs, processed, pc, job, combined, pending_error>>
call_vars == <<text_blocks, sections_arg, call, ret>>
image_vars == <<image_shape, thresh_shape>>
embed_vars == <<batch_items, gen_pc, attempts, gen_ret, processed_count,
                error_count>>
backfill_vars == <<menu_items, bf_pc, stored_upto, total_processed>>
vars == <<files, status, result, error_message, uploaded, artifacts,
          parse_jobs, processed, pc, job, combined, pending_error,
          text_blocks, sections_arg, call, ret,
          image_shape, thresh_shape,
          batch_items, gen_pc, attempts, gen_ret, processed_count,
          error_count,
          menu_items, bf_pc, stored_upto, total_processed>>

\* Python's None.
None == [none |-> TRUE]

(***************************************************************************)
(* Characters and strings                                                  *)
(***************************************************************************)
UpperChars == <<"A", "B", "C", "D", "E", "F", "G", "H", "I", "J", "K", "L", "M",
                "N", "O", "P", "Q", "R", "S", "T", "U", "V", "W", "X", "Y", "Z">>
LowerChars == <<"a", "b", "c", "d", "e", "f", "g", "h", "i", "j", "k", "l", "m",
                "n", "o", "p", "q", "r", "s", "t", "u", "v", "w", "x", "y", "z">>
DigitChars == <<"0", "1", "2", "3", "4", "5", "6", "7", "8", "9">>

Range(s) == {s[i] : i \in 1..Len(s)}

Letters == Range(UpperChars) \cup Range(LowerChars) \cup {"é"}
Digits == Range(DigitChars)
LowerOf == [c \in Range(UpperChars) |->
               LowerChars[CHOOSE i \in 1..Len(UpperChars) : UpperChars[i] = c]]
DigitValue == [c \in Digits |-> (CHOOSE i \in 1..10 : DigitChars[i] = c) - 1]

\* c.isalpha()
isalpha(c) == c \in Letters

\* \d of the price patterns
IsDigit(c) == c \in Digits

\* \s of the price patterns
IsSpace(c) == c \in {" ", "\n"}

LowerChar(c) == IF c \in DOMAIN LowerOf THEN LowerOf[c] ELSE c

\* the text as it is, not lower-cased
lower_identity(text) == text

\* str.lower()
lower(text) == [i \in 1..Len(text) |-> LowerChar(text[i])]

\* `needle in hay` on two strings
Contains(needle, hay) ==
    \E p \in 0..(Len(hay) - Len(needle)) :
        \A k \in 1..Len(needle) : hay[p + k] = needle[k]

\* `x in list`
InList(x, list) == \E i \in 1..Len(list) : list[i] = x

RECURSIVE join(_, _)
\* sep.join(strings)
join(sep, strings) ==
    IF Len(strings) = 0 THEN <<>>
    ELSE IF Len(strings) = 1 THEN strings[1]
    ELSE strings[1] \o sep \o join(sep, Tail(strings))

\* str.replace(old, new) for one-character old and new
replace(text, old, new) ==
    [i \in 1..Len(text) |-> IF text[i] = old THEN new ELSE text[i]]

RECURSIVE DigitsToNat(_)
DigitsToNat(digits) ==
    IF Len(digits) = 0 THEN 0
    ELSE 10 * DigitsToNat(SubSeq(digits, 1, Len(digits) - 1))
         + DigitValue[digits[Len(digits)]]

\* float(s) of a string "ddd" or "ddd.dd", as the number of hundredths
\* (every string the price patterns capture has no or exactly two decimals)
float(s) ==
    IF \E i \in 1..Len(s) : s[i] = "."
    THEN LET dot == CHOOSE i \in 1..Len(s) : s[i] = "."
         IN  100 * DigitsToNat(SubSeq(s, 1, dot - 1))
             + DigitsToNat(SubSeq(s, dot + 1, Len(s)))
    ELSE 100 * DigitsToNat(s)

(***************************************************************************)
(* Section labels and keywords (detect_sections, extract_items)            *)
(***************************************************************************)
s_appetizers == <<"a", "p", "p", "e", "t", "i", "z", "e", "r", "s">>
s_salads == <<"s", "a", "l", "a", "d", "s">>
s_soups == <<"s", "o", "u", "p", "s">>
s_mains == <<"m", "a", "i", "n", "s">>
s_sides == <<"s", "i", "d", "e", "s">>
s_desserts == <<"d", "e", "s", "s", "e", "r", "t", "s">>
s_drinks == <<"d", "r", "i", "n", "k", "s">>
s_unknown == <<"u", "n", "k", "n", "o", "w", "n">>
k_appetizer == <<"a", "p", "p", "e", "t", "i", "z", "e", "r">>
k_starter == <<"s", "t", "a", "r", "t", "e", "r">>
k_small_plate == <<"s", "m", "a", "l", "l", " ", "p", "l", "a", "t", "e">>
k_sharing == <<"s", "h", "a", "r", "i", "n", "g">>
k_salad == <<"s", "a", "l", "a", "d">>
k_greens == <<"g", "r", "e", "e", "n", "s">>
k_soup == <<"s", "o", "u", "p">>
k_bisque == <<"b", "i", "s", "q", "u", "e">>
k_chowder == <<"c", "h", "o", "w", "d", "e", "r">>
k_main == <<"m", "a", "i", "n">>
k_entree == <<"e", "n", "t", "r", "e", "e">>
k_entree_acc == <<"e", "n", "t", "r", "é", "e">>
k_pasta == <<"p", "a", "s", "t", "a">>
k_burger == <<"b", "u", "r", "g", "e", "r">>
k_sandwich == <<"s", "a", "n", "d", "w", "i", "c", "h">>
k_side == <<"s", "i", "d", "e">>
k_accompaniment == <<"a", "c", "c", "o", "m", "p", "a", "n", "i", "m", "e", "n", "t">>
k_dessert == <<"d", "e", "s", "s", "e", "r", "t">>
k_sweet == <<"s", "w", "e", "e", "t">>
k_pastry == <<"p", "a", "s", "t", "r", "y">>
k_drink == <<"d", "r", "i", "n", "k">>
k_beverage == <<"b", "e", "v", "e", "r", "a", "g", "e">>
k_cocktail == <<"c", "o", "c", "k", "t", "a", "i", "l">>
k_wine == <<"w", "i", "n", "e">>
k_beer == <<"b", "e", "e", "r">>

\* the dict section_keywords, in insertion order
section_keywords == <<
    [section |-> s_appetizers, keywords |-> <<k_appetizer, k_starter, k_small_plate, k_sharing>>],
    [section |-> s_salads,     keywords |-> <<k_salad, k_greens>>],
    [section |-> s_soups,      keywords |-> <<k_soup, k_bisque, k_chowder>>],
    [section |-> s_mains,      keywords |-> <<k_main, k_entree, k_entree_acc, k_pasta, k_burger, k_sandwich>>],
    [section |-> s_sides,      keywords |-> <<k_side, k_accompaniment>>],
    [section |-> s_desserts,   keywords |-> <<k_dessert, k_sweet, k_pastry>>],
    [section |-> s_drinks,     keywords |-> <<k_drink, k_beverage, k_cocktail, k_wine, k_beer>>] >>

\* the list literal of the header check in extract_items
header_sections == <<s_appetizers, s_mains, s_desserts, s_drinks, s_salads, s_soups>>

(***************************************************************************)
(* extract_prices                                                          *)
(***************************************************************************)
\* The four regular expressions of price_patterns, in list order.
\*   prefix: symbol \s* ( \d+ (?: sep \d{2} )? )
\*   suffix: ( \d+ (?: sep \d{2} )? ) \s* USD        (re.IGNORECASE)
price_patterns == <<
    [kind |-> "prefix", symbol |-> "$", seps |-> {"."}],
    [kind |-> "suffix", symbol |-> "USD", seps |-> {"."}],
    [kind |-> "prefix", symbol |-> "€", seps |-> {".", ","}],
    [kind |-> "prefix", symbol |-> "£", seps |-> {"."}] >>

NoMatch == [ok |-> FALSE, start |-> 0, end |-> 0, g1 |-> 0, g1end |-> 0]

\* first index >= q that holds no whitespace (\s* is greedy)
SkipSpace(text, q) ==
    CHOOSE e \in q..(Len(text) + 1) :
        /\ \A k \in q..(e - 1) : IsSpace(text[k])
        /\ (e = Len(text) + 1 \/ ~IsSpace(text[e]))

\* first index >= q that holds no digit (\d+ is greedy)
SkipDigits(text, q) ==
    CHOOSE e \in q..(Len(text) + 1) :
        /\ \A k \in q..(e - 1) : IsDigit(text[k])
        /\ (e = Len(text) + 1 \/ ~IsDigit(text[e]))

\* (?: sep \d{2} ) matches at e
HasDecimals(text, e, seps) ==
    /\ e + 2 <= Len(text)
    /\ text[e] \in seps
    /\ IsDigit(text[e + 1])
    /\ IsDigit(text[e + 2])

\* \s*USD matches at e, ignoring case: the index after it, or 0
UsdEnd(text, e) ==
    LET q == SkipSpace(text, e)
    IN  IF /\ q + 2 <= Len(text)
           /\ LowerChar(text[q]) = "u"
           /\ LowerChar(text[q + 1]) = "s"
           /\ LowerChar(text[q + 2]) = "d"
        THEN q + 3 ELSE 0

\* The match of one pattern that starts exactly at index p, groups included
\* (start and g1 are first indices, end and g1end are one past the last).
MatchAt(pat, text, p) ==
    IF pat.kind = "prefix"
    THEN IF text[p] # pat.symbol THEN NoMatch
         ELSE LET q == SkipSpace(text, p + 1)
                  e == SkipDigits(text, q)
              IN  IF e = q THEN NoMatch
                  ELSE LET f == IF HasDecimals(text, e, pat.seps) THEN e + 3 ELSE e
                       IN  [ok |-> TRUE, start |-> p, end |-> f, g1 |-> q, g1end |-> f]
    ELSE LET e == SkipDigits(text, p)
         IN  IF e = p THEN NoMatch
             \* the regex engine tries the decimals first, then backtracks to
             \* the bare digits; a shorter digit run is followed by a digit
             \* and can match neither the decimals nor \s*USD
             ELSE IF HasDecimals(text, e, pat.seps) /\ UsdEnd(text, e + 3) # 0
             THEN [ok |-> TRUE, start |-> p, end |-> UsdEnd(text, e + 3),
                   g1 |-> p, g1end |-> e + 3]
             ELSE IF UsdEnd(text, e) # 0
             THEN [ok |-> TRUE, start |-> p, end |-> UsdEnd(text, e),
                   g1 |-> p, g1end |-> e]
             ELSE NoMatch

RECURSIVE finditer(_, _, _)
\* re.finditer(pattern, text): the non-overlapping matches from index pos on,
\* left to right
finditer(pat, text, pos) ==
    IF pos > Len(text) THEN <<>>
    ELSE LET m == MatchAt(pat, text, pos)
         IN  IF m.ok THEN <<m>> \o finditer(pat, text, m.end)
             ELSE finditer(pat, text, pos + 1)

\* the dict of one match with the currency looked up in the amount
\* (group 1) in place of the whole match
PriceOf_currency_from_amount(text, m) ==
    LET group0 == SubSeq(text, m.start, m.end - 1)
        price_str == SubSeq(text, m.g1, m.g1end - 1)
    IN  [value    |-> float(replace(price_str, ",", ".")),
         currency |-> IF Contains(<<"€">>, price_str) THEN "EUR"
                      ELSE IF Contains(<<"£">>, price_str) THEN "GBP"
                      ELSE "USD",
         raw      |-> group0,
         position |-> m.start - 1]

\* the dict appended to prices for one match
PriceOf(text, m) ==
    LET group0 == SubSeq(text, m.start, m.end - 1)
        price_str == SubSeq(text, m.g1, m.g1end - 1)
    IN  [value    |-> float(replace(price_str, ",", ".")),
         currency |-> IF Contains(<<"€">>, group0) THEN "EUR"
                      ELSE IF Contains(<<"£">>, group0) THEN "GBP"
                      ELSE "USD",
         raw      |-> group0,
         position |-> m.start - 1]

RECURSIVE PricesFrom(_, _)
PricesFrom(text, k) ==
    IF k > Len(price_patterns) THEN <<>>
    ELSE LET matches == finditer(price_patterns[k], text, 1)
         IN  [i \in 1..Len(matches) |-> PriceOf(text, matches[i])]
             \o PricesFrom(text, k + 1)

RECURSIVE InsertByPosition(_, _)
InsertByPosition(price, prices) ==
    IF Len(prices) = 0 THEN <<price>>
    ELSE IF price.position < prices[1].position THEN <<price>> \o prices
    ELSE <<prices[1]>> \o InsertByPosition(price, Tail(prices))

RECURSIVE SortByPosition(_)
SortByPosition(prices) ==
    IF Len(prices) = 0 THEN <<>>
    ELSE InsertByPosition(prices[1], SortByPosition(Tail(prices)))

\* extract_prices returning its prices sorted by position in the text
extract_prices_sorted(text) == SortByPosition(PricesFrom(text, 1))

extract_prices(text) == PricesFrom(text, 1)

(***************************************************************************)
(* detect_sections                                                         *)
(***************************************************************************)
RECURSIVE DetectInBlock_no_membership_test(_, _, _)
\* the loop over section_keywords.items() without `if section not in
\* detected_sections`
DetectInBlock_no_membership_test(text_lower, detected_sections, k) ==
    IF k > Len(section_keywords) THEN detected_sections
    ELSE LET section == section_keywords[k].section
             keywords == section_keywords[k].keywords
             hit == \E i \in 1..Len(keywords) : Contains(keywords[i], text_lower)
         IN  DetectInBlock_no_membership_test(text_lower,
                 IF hit THEN Append(detected_sections, section)
                 ELSE detected_sections,
                 k + 1)

RECURSIVE DetectInBlock(_, _, _)
\* the loop over section_keywords.items() for one block, from entry k on
DetectInBlock(text_lower, detected_sections, k) ==
    IF k > Len(section_keywords) THEN detected_sections
    ELSE LET section == section_keywords[k].section
             keywords == section_keywords[k].keywords
             hit == \E i \in 1..Len(keywords) : Contains(keywords[i], text_lower)
         IN  DetectInBlock(text_lower,
                 IF hit /\ ~InList(section, detected_sections)
                 THEN Append(detected_sections, section)
                 ELSE detected_sections,
                 k + 1)

RECURSIVE DetectFrom(_, _, _)
\* the loop over text_blocks, from block b on
DetectFrom(blocks, b, detected_sections) ==
    IF b > Len(blocks) THEN detected_sections
    ELSE DetectFrom(blocks, b + 1,
             DetectInBlock(lower(blocks[b].text), detected_sections, 1))

\* detect_sections falling back to ['unknown'] when it detects no section
detect_sections_or_unknown(blocks) ==
    IF DetectFrom(blocks, 1, <<>>) = <<>> THEN <<s_unknown>>
    ELSE DetectFrom(blocks, 1, <<>>)

\* detect_sections returning no more than the first label it detected
detect_sections_first_only(blocks) ==
    LET detected == DetectFrom(blocks, 1, <<>>)
    IN  IF Len(detected) > 1 THEN <<detected[1]>> ELSE detected

detect_sections(blocks) == DetectFrom(blocks, 1, <<>>)

(***************************************************************************)
(* extract_items                                                           *)
(***************************************************************************)
RECURSIVE HeaderCheck_first_match(_, _, _)
\* the loop over the header list leaving at its first matching entry
HeaderCheck_first_match(text_lower, current_section, k) ==
    IF k > Len(header_sections) THEN current_section
    ELSE IF Contains(header_sections[k], text_lower) THEN header_sections[k]
    ELSE HeaderCheck_first_match(text_lower, current_section, k + 1)

RECURSIVE HeaderCheck(_, _, _)
\* the loop over the header list for one block, from entry k on: every
\* matching entry assigns current_section (the `continue` ends nothing)
HeaderCheck(text_lower, current_section, k) ==
    IF k > Len(header_sections) THEN current_section
    ELSE HeaderCheck(text_lower,
             IF Contains(header_sections[k], text_lower)
             THEN header_sections[k] ELSE current_section,
             k + 1)

\* len(text) > 3 and any(c.isalpha() for c in text)
LooksLikeItem(text) ==
    Len(text) > 3 /\ \E i \in 1..Len(text) : isalpha(text[i])

Min(a, b) == IF a < b THEN a ELSE b

RECURSIVE PriceLookahead(_, _, _)
\* for j in range(j, stop): the first price of the first block that has one
PriceLookahead(blocks, j, stop) ==
    IF j >= stop THEN None
    ELSE LET prices == extract_prices(blocks[j].text)
         IN  IF Len(prices) > 0 THEN prices[1]
             ELSE PriceLookahead(blocks, j + 1, stop)

\* the lookahead over range(i, min(i + 2, len(text_blocks)))
ItemPrice_window_of_two(blocks, i) ==
    PriceLookahead(blocks, i, Min(i + 2, Len(blocks) + 1))

\* the price attached to the block at (1-based) index i:
\* range(i, min(i + 3, len(text_blocks))) on 0-based indices
ItemPrice(blocks, i) ==
    PriceLookahead(blocks, i, Min(i + 3, Len(blocks) + 1))

RECURSIVE ItemsFrom_header_is_no_item(_, _, _, _)
\* the loop over enumerate(text_blocks) with the `continue` of the header
\* check going to the next block
ItemsFrom_header_is_no_item(blocks, i, current_section, items) ==
    IF i > Len(blocks) THEN items
    ELSE LET text == blocks[i].text
             section == HeaderCheck(lower(text), current_section, 1)
             is_header == \E k \in 1..Len(header_sections) :
                              Contains(header_sections[k], lower(text))
         IN  ItemsFrom_header_is_no_item(blocks, i + 1, section,
                 IF LooksLikeItem(text) /\ ~is_header
                 THEN Append(items, [name    |-> text,
                                     section |-> section,
                                     price   |-> ItemPrice(blocks, i),
                                     bbox    |-> blocks[i].bbox])
                 ELSE items)

RECURSIVE ItemsFrom(_, _, _, _)
\* the loop over enumerate(text_blocks), from block i on
ItemsFrom(blocks, i, current_section, items) ==
    IF i > Len(blocks) THEN items
    ELSE LET text == blocks[i].text
             section == HeaderCheck(lower(text), current_section, 1)
         IN  ItemsFrom(blocks, i + 1, section,
                 IF LooksLikeItem(text)
                 THEN Append(items, [name    |-> text,
                                     section |-> section,
                                     price   |-> ItemPrice(blocks, i),
                                     bbox    |-> blocks[i].bbox])
                 ELSE items)

\* extract_items starting from 'unknown' whatever sections holds
extract_items_unknown_start(blocks, sections) ==
    ItemsFrom(blocks, 1, s_unknown, <<>>)

extract_items(blocks, sections) ==
    ItemsFrom(blocks, 1, IF Len(sections) > 0 THEN sections[1] ELSE s_unknown, <<>>)

(***************************************************************************)
(* postprocess                                                             *)
(***************************************************************************)
\* postprocess keeping only the blocks that look like an item
postprocess_items_only(blocks) ==
    LET kept == SelectSeq(blocks, LAMBDA b : LooksLikeItem(b.text))
        full_text == join(<<"\n">>, [i \in 1..Len(kept) |-> kept[i].text])
        sections == detect_sections(kept)
    IN  [full_text   |-> full_text,
         text_blocks |-> kept,
         prices      |-> extract_prices(full_text),
         sections    |-> sections,
         items       |-> extract_items(kept, sections),
         block_count |-> Len(kept)]

postprocess(blocks) ==
    LET full_text == join(<<"\n">>, [i \in 1..Len(blocks) |-> blocks[i].text])
        sections == detect_sections(blocks)
    IN  [full_text   |-> full_text,
         text_blocks |-> blocks,
         prices      |-> extract_prices(full_text),
         sections    |-> sections,
         items       |-> extract_items(blocks, sections),
         block_count |-> Len(blocks)]

(***************************************************************************)
(* Text blocks used as inputs.  A block is what extract_text builds from   *)
(* one recognised line; bbox stands for its polygon.                       *)
(***************************************************************************)
t_Starters == <<"S", "t", "a", "r", "t", "e", "r", "s">>
t_CaesarSalad9 == <<"C", "a", "e", "s", "a", "r", " ", "S", "a", "l", "a", "d", " ", "$", "9">>
t_Burger12 == <<"B", "u", "r", "g", "e", "r", " ", "$", "1", "2">>
t_SoupSalad == <<"S", "o", "u", "p", " ", "&", " ", "S", "a", "l", "a", "d">>
t_Burger == <<"B", "u", "r", "g", "e", "r">>
t_Fries == <<"F", "r", "i", "e", "s">>
t_1299 == <<"$", "1", "2", ".", "9", "9">>
t_Salad == <<"S", "a", "l", "a", "d">>
t_Tea == <<"T", "e", "a">>
t_10USD == <<"$", "1", "0", " ", "U", "S", "D">>
t_5USD3 == <<"5", " ", "U", "S", "D", " ", "$", "3">>
t_Eur1099 == <<"€", "1", "0", ",", "9", "9">>
t_850 == <<"$", "8", ".", "5", "0">>
t_Gbp5 == <<"£", "5">>
t_DessertsDrinks == <<"D", "e", "s", "s", "e", "r", "t", "s", " ", "&", " ", "D", "r", "i", "n", "k", "s">>
t_SoupsSalads == <<"S", "o", "u", "p", "s", " ", "a", "n", "d", " ", "S", "a", "l", "a", "d", "s">>
t_Mains == <<"M", "a", "i", "n", "s">>

Block(text, bbox) == [text |-> text, bbox |-> bbox, confidence |-> "high"]

b_Starters == Block(t_Starters, "box_Starters")
b_CaesarSalad9 == Block(t_CaesarSalad9, "box_CaesarSalad9")
b_Burger12 == Block(t_Burger12, "box_Burger12")
b_SoupSalad == Block(t_SoupSalad, "box_SoupSalad")
b_Burger == Block(t_Burger, "box_Burger")
b_Fries == Block(t_Fries, "box_Fries")
b_1299 == Block(t_1299, "box_1299")
b_Salad == Block(t_Salad, "box_Salad")
b_Tea == Block(t_Tea, "box_Tea")
b_10USD == Block(t_10USD, "box_10USD")
b_5USD3 == Block(t_5USD3, "box_5USD3")
b_Eur1099 == Block(t_Eur1099, "box_Eur1099")
b_850 == Block(t_850, "box_850")
b_Gbp5 == Block(t_Gbp5, "box_Gbp5")
b_DessertsDrinks == Block(t_DessertsDrinks, "box_DessertsDrinks")
b_SoupsSalads == Block(t_SoupsSalads, "box_SoupsSalads")
b_Mains == Block(t_Mains, "box_Mains")

\* Each vocabulary is a menu excerpt; an input is a sequence of blocks of one.
Vocabularies == { {b_Starters, b_CaesarSalad9, b_Burger12, b_SoupSalad},
                  {b_Burger, b_Fries, b_1299, b_Salad, b_Tea},
                  {b_10USD, b_5USD3, b_Gbp5},
                  {b_Eur1099, b_850, b_Gbp5},
                  {b_Fries, b_Mains, b_DessertsDrinks, b_SoupsSalads} }

\* the longest block list given to a method
MaxBlocks == 4

SeqsUpTo(S, n) == UNION {[1..k -> S] : k \in 0..n}

BlockLists == UNION {SeqsUpTo(V, MaxBlocks) : V \in Vocabularies}

(***************************************************************************)
(* One call of a Menu Structurer method on a block list                    *)
(***************************************************************************)
CallInit ==
    /\ text_blocks \in BlockLists
    /\ sections_arg = <<>>
    /\ call = "none"
    /\ ret = None

CallDetectSections ==
    /\ call = "none"
    /\ call' = "detect_sections"
    /\ ret' = detect_sections(text_blocks)
    /\ UNCHANGED <<text_blocks, sections_arg>>

\* postprocess passes the detected sections; a caller may also pass none
CallExtractItems ==
    /\ call = "none"
    /\ \E sections \in {detect_sections(text_blocks), <<>>} :
           /\ sections_arg' = sections
           /\ ret' = extract_items(text_blocks, sections)
    /\ call' = "extract_items"
    /\ UNCHANGED text_blocks

CallExtractPrices ==
    /\ call = "none"
    /\ call' = "extract_prices"
    /\ ret' = extract_prices(join(<<"\n">>,
                  [i \in 1..Len(text_blocks) |-> text_blocks[i].text]))
    /\ UNCHANGED <<text_blocks, sections_arg>>

CallPostprocess ==
    /\ call = "none"
    /\ call' = "postprocess"
    /\ ret' = postprocess(text_blocks)
    /\ UNCHANGED <<text_blocks, sections_arg>>

(***************************************************************************)
(* process_ocr_job: the Document Assembler                                 *)
(***************************************************************************)
\* postprocess(text_blocks) with result['page_number'] = idx + 1
PageResult(blocks, page_number) ==
    LET r == postprocess(blocks)
    IN  [full_text   |-> r.full_text,
         text_blocks |-> r.text_blocks,
         prices      |-> r.prices,
         sections    |-> r.sections,
         items       |-> r.items,
         block_count |-> r.block_count,
         page_number |-> page_number]

RECURSIVE Flatten(_)
\* [item for page in all_results for item in page['items']]
Flatten(lists) ==
    IF Len(lists) = 0 THEN <<>> ELSE lists[1] \o Flatten(Tail(lists))

\* combined_result with the page texts joined by a single newline
combine_single_newline(images, all_results) ==
    [pages       |-> all_results,
     total_pages |-> Len(images),
     total_text  |-> join(<<"\n">>,
                         [k \in 1..Len(all_results) |-> all_results[k].full_text]),
     all_items   |-> Flatten([k \in 1..Len(all_results) |-> all_results[k].items])]

\* the dict combined_result built from the page images and their results
combine(images, all_results) ==
    [pages       |-> all_results,
     total_pages |-> Len(images),
     total_text  |-> join(<<"\n", "\n">>,
                         [k \in 1..Len(all_results) |-> all_results[k].full_text]),
     all_items   |-> Flatten([k \in 1..Len(all_results) |-> all_results[k].items])]

\* The page loop: preprocess or extract_text raises on a corrupt image and
\* nothing in the loop catches it.
PageRaises(images) == \E k \in 1..Len(images) : images[k].corrupt

\* all_results after the page loop ran to its end
all_results_of(images) ==
    [k \in 1..Len(images) |-> PageResult(images[k].blocks, k)]

(***************************************************************************)
(* The files of the OCR jobs                                               *)
(***************************************************************************)
\* what extract_text recognises on the pages of a menu: three items on odd
\* pages, two on even pages
PageBlocks(k) ==
    IF k % 2 = 1 THEN <<b_Starters, b_CaesarSalad9, b_Burger12>>
    ELSE <<b_Burger, b_1299, b_Salad>>

\* the most pages a file decodes to
MaxPages == 3
\* the number of OCR jobs in the jobs table
MaxJobs == 1
\* the number of worker processes
NumWorkers == 2

Jobs == 1..MaxJobs
Workers == 1..NumWorkers

\* A file decodes to 0..MaxPages page images (an image file to one, a PDF to
\* one per page), at most one of which is corrupt.
Documents ==
    UNION { { [k \in 1..n |-> [corrupt |-> (k = bad), blocks |-> PageBlocks(k)]]
              : bad \in 0..n }
            : n \in 0..MaxPages }

(***************************************************************************)
(* main: the worker loop, one action per storage or database call          *)
(***************************************************************************)
WorkerInit ==
    /\ files \in [Jobs -> Documents]
    /\ status = [j \in Jobs |-> "pending"]
    /\ result = [j \in Jobs |-> None]
    /\ error_message = [j \in Jobs |-> None]
    /\ uploaded = [j \in Jobs |-> <<>>]
    /\ artifacts = [j \in Jobs |-> <<>>]
    /\ parse_jobs = [j \in Jobs |-> <<>>]
    /\ processed = [j \in Jobs |-> 0]
    /\ pc = [w \in Workers |-> "fetch"]
    /\ job = [w \in Workers |-> 0]
    /\ combined = [w \in Workers |-> None]
    /\ pending_error = [w \in Workers |-> None]

\* leave the try block of line 357 through `except Exception` (line 388)
MainLoopError(w) ==
    /\ pc' = [pc EXCEPT ![w] = "sleep"]
    /\ job' = [job EXCEPT ![w] = 0]
    /\ combined' = [combined EXCEPT ![w] = None]
    /\ pending_error' = [pending_error EXCEPT ![w] = None]

\* the exception a failing call raises, and str(e) of it
Raised(what) == [raised_by |-> what]
str(e) == [message |-> e.raised_by]

\* leave process_ocr_job or line 372 through `except Exception as e` (line 378)
JobError(w, e) ==
    /\ pc' = [pc EXCEPT ![w] = "mark_failed"]
    /\ pending_error' = [pending_error EXCEPT ![w] = e]
    /\ combined' = [combined EXCEPT ![w] = None]
    /\ UNCHANGED job

\* line 359: select the pending OCR jobs, limit 1
FetchPending(w) ==
    /\ pc[w] = "fetch"
    /\ \/ \E j \in Jobs :
             /\ status[j] = "pending"
             /\ job' = [job EXCEPT ![w] = j]
             /\ pc' = [pc EXCEPT ![w] = "mark_running"]
             /\ UNCHANGED <<combined, pending_error>>
       \/ /\ \A j \in Jobs : status[j] # "pending"
          /\ pc' = [pc EXCEPT ![w] = "sleep"]
          /\ UNCHANGED <<job, combined, pending_error>>
       \/ MainLoopError(w)
    /\ UNCHANGED <<files, status, result, error_message, uploaded, artifacts,
                   parse_jobs, processed>>

\* line 365: update status = 'running'
MarkRunning(w) ==
    /\ pc[w] = "mark_running"
    /\ \/ /\ status' = [status EXCEPT ![job[w]] = "running"]
          /\ pc' = [pc EXCEPT ![w] = "process"]
          /\ UNCHANGED <<job, combined, pending_error>>
       \/ /\ MainLoopError(w)
          /\ UNCHANGED status
    /\ UNCHANGED <<files, result, error_message, uploaded, artifacts,
                   parse_jobs, processed>>

\* lines 263-319: download, decode, the page loop, combined_result
ProcessPages(w) ==
    /\ pc[w] = "process"
    /\ processed' = [processed EXCEPT ![job[w]] = @ + 1]
    /\ LET images == files[job[w]]
       IN  \/ JobError(w, Raised("download"))
           \/ /\ PageRaises(images)
              /\ JobError(w, Raised("page"))
           \/ /\ ~PageRaises(images)
              /\ combined' = [combined EXCEPT
                     ![w] = combine(images, all_results_of(images))]
              /\ pc' = [pc EXCEPT ![w] = "upload"]
              /\ UNCHANGED <<job, pending_error>>
    /\ UNCHANGED <<files, status, result, error_message, uploaded, artifacts,
                   parse_jobs>>

\* line 325: upload the result JSON
UploadResult(w) ==
    /\ pc[w] = "upload"
    /\ \/ /\ uploaded' = [uploaded EXCEPT ![job[w]] = Append(@, combined[w])]
          /\ pc' = [pc EXCEPT ![w] = "update_artifact"]
          /\ UNCHANGED <<job, combined, pending_error>>
       \/ /\ JobError(w, Raised("upload"))
          /\ UNCHANGED uploaded
    /\ UNCHANGED <<files, status, result, error_message, artifacts,
                   parse_jobs, processed>>

\* line 332: update raw_artifacts.ocr_result
UpdateArtifact(w) ==
    /\ pc[w] = "update_artifact"
    /\ \/ /\ artifacts' = [artifacts EXCEPT ![job[w]] = Append(@, combined[w])]
          /\ pc' = [pc EXCEPT ![w] = "enqueue_parse"]
          /\ UNCHANGED <<job, combined, pending_error>>
       \/ /\ JobError(w, Raised("update_artifact"))
          /\ UNCHANGED artifacts
    /\ UNCHANGED <<files, status, result, error_message, uploaded,
                   parse_jobs, processed>>

\* line 338: insert the parse job
EnqueueParse(w) ==
    /\ pc[w] = "enqueue_parse"
    /\ \/ /\ parse_jobs' = [parse_jobs EXCEPT ![job[w]] = Append(@, combined[w])]
          /\ pc' = [pc EXCEPT ![w] = "mark_completed"]
          /\ UNCHANGED <<job, combined, pending_error>>
       \/ /\ JobError(w, Raised("enqueue_parse"))
          /\ UNCHANGED parse_jobs
    /\ UNCHANGED <<files, status, result, error_message, uploaded,
                   artifacts, processed>>

\* line 372: update status = 'completed' with the result
MarkCompleted(w) ==
    /\ pc[w] = "mark_completed"
    /\ \/ /\ status' = [status EXCEPT ![job[w]] = "completed"]
          /\ result' = [result EXCEPT ![job[w]] = combined[w]]
          /\ pc' = [pc EXCEPT ![w] = "fetch"]
          /\ job' = [job EXCEPT ![w] = 0]
          /\ combined' = [combined EXCEPT ![w] = None]
          /\ UNCHANGED pending_error
       \/ /\ JobError(w, Raised("mark_completed"))
          /\ UNCHANGED <<status, result>>
    /\ UNCHANGED <<files, error_message, uploaded, artifacts, parse_jobs,
                   processed>>

\* line 380 putting the failed job back to 'pending' (an automatic retry)
MarkFailed_retry(w) ==
    /\ pc[w] = "mark_failed"
    /\ \/ /\ status' = [status EXCEPT ![job[w]] = "pending"]
          /\ error_message' = [error_message EXCEPT ![job[w]] = str(pending_error[w])]
          /\ pc' = [pc EXCEPT ![w] = "fetch"]
          /\ job' = [job EXCEPT ![w] = 0]
          /\ pending_error' = [pending_error EXCEPT ![w] = None]
          /\ UNCHANGED combined
       \/ /\ MainLoopError(w)
          /\ UNCHANGED <<status, error_message>>
    /\ UNCHANGED <<files, result, uploaded, artifacts, parse_jobs, processed>>

\* line 380: update status = 'failed' with str(e)
MarkFailed(w) ==
    /\ pc[w] = "mark_failed"
    /\ \/ /\ status' = [status EXCEPT ![job[w]] = "failed"]
          /\ error_message' = [error_message EXCEPT ![job[w]] = str(pending_error[w])]
          /\ pc' = [pc EXCEPT ![w] = "fetch"]
          /\ job' = [job EXCEPT ![w] = 0]
          /\ pending_error' = [pending_error EXCEPT ![w] = None]
          /\ UNCHANGED combined
       \/ /\ MainLoopError(w)
          /\ UNCHANGED <<status, error_message>>
    /\ UNCHANGED <<files, result, uploaded, artifacts, parse_jobs, processed>>

\* lines 386 and 390: time.sleep, then the next iteration of `while True`
Sleep(w) ==
    /\ pc[w] = "sleep"
    /\ pc' = [pc EXCEPT ![w] = "fetch"]
    /\ UNCHANGED <<files, status, result, error_message, uploaded, artifacts,
                   parse_jobs, processed, job, combined, pending_error>>

main(w) ==
    \/ FetchPending(w)
    \/ MarkRunning(w)
    \/ ProcessPages(w)
    \/ UploadResult(w)
    \/ UpdateArtifact(w)
    \/ EnqueueParse(w)
    \/ MarkCompleted(w)
    \/ MarkFailed(w)
    \/ Sleep(w)

(***************************************************************************)
(* preprocess: the shape of the image after the upscaling step.            *)
(* `/` and `*` of lines 70-72 are operations on IEEE 754 doubles, each     *)
(* rounded to the nearest double; int() truncates.  A quotient n / d is    *)
(* kept exactly, with the error its rounding made, so that the product     *)
(* and its truncation are computed on integers.                            *)
(***************************************************************************)
\* the significant bits of a Python float
SignificandBits == 53

RECURSIVE FloorLog2(_, _)
\* floor(log2(n / d)) for positive integers n and d
FloorLog2(n, d) ==
    IF n >= d THEN (IF 2 * d <= n THEN 1 + FloorLog2(n, 2 * d) ELSE 0)
    ELSE FloorLog2(2 * n, d) - 1

RECURSIVE Pow2(_)
Pow2(k) == IF k = 0 THEN 1 ELSE 2 * Pow2(k - 1)

RECURSIVE Pow2Mod(_, _)
\* 2^k modulo d
Pow2Mod(k, d) == IF k = 0 THEN 1 % d ELSE (2 * Pow2Mod(k - 1, d)) % d

\* n / d on ints: the double m / 2^shift, m the integer nearest to
\* n * 2^shift / d and 2^52 <= m <= 2^53.  rem = n * 2^shift - m * d says
\* how far the double is from the quotient: it is (n - rem / 2^shift) / d.
\* (n * 2^shift / d is never half-way between two integers for n = 1200
\* and n = 900, whose odd parts are below 2^52.)
FloatDiv(n, d) ==
    LET shift == (SignificandBits - 1) - FloorLog2(n, d)
        r0 == ((n % d) * Pow2Mod(shift, d)) % d
    IN  [num |-> n, den |-> d, shift |-> shift,
         rem |-> IF 2 * r0 < d THEN r0 ELSE r0 - d]

\* max(a, b) of two such doubles: they compare as their quotients do, two
\* different quotients of integers this small being further apart than a
\* rounding error; max returns its first argument when neither is larger
FloatMax(a, b) == IF b.num * a.den > a.num * b.den THEN b ELSE a

\* int(x * q) for an int x and a double q = FloatDiv(n, d).  The product is
\* x * n / d - x * rem / (d * 2^shift), rounded to the nearest double.  When
\* x * n / d is no integer the floor is that of x * n / d.  When it is the
\* integer N and rem > 0, the product lies below N and rounds to a double
\* below N exactly when it is more than half the gap between N and the
\* double before N away from N: then int() gives N - 1.
TruncMul(x, q) ==
    LET exact == (x * q.num) \div q.den
        half_gap == q.shift + FloorLog2(exact, 1) - SignificandBits
                    - (IF Pow2(FloorLog2(exact, 1)) = exact THEN 1 ELSE 0)
        rounds_below == IF half_gap >= 0
                        THEN x * q.rem > q.den * Pow2(half_gap)
                        ELSE x * q.rem * Pow2(0 - half_gap) > q.den
    IN  IF (x * q.num) % q.den # 0 \/ q.rem <= 0 THEN exact
        ELSE IF rounds_below THEN exact - 1 ELSE exact

\* lines 68-74: the shape after the upscaling step, and whether cv2.resize
\* was called
upscale(shape) ==
    IF shape.height < 1200 \/ shape.width < 900
    THEN LET scale_factor == FloatMax(FloatDiv(1200, shape.height),
                                      FloatDiv(900, shape.width))
             new_width == TruncMul(shape.width, scale_factor)
             new_height == TruncMul(shape.height, scale_factor)
         IN  [height |-> new_height, width |-> new_width, resized |-> TRUE]
    ELSE [height |-> shape.height, width |-> shape.width, resized |-> FALSE]

\* the shapes of the images given to preprocess
Heights == {28, 281, 800, 1109, 1600} \cup (1190..1210)
Widths == {21, 600, 1200, 2000} \cup (890..910)
Shapes == [height : Heights, width : Widths]

NoImage == image_shape = None /\ thresh_shape = None

\* preprocess(image): adaptiveThreshold and warpAffine keep the shape
Preprocess ==
    /\ image_shape # None
    /\ thresh_shape = None
    /\ thresh_shape' = upscale(image_shape)
    /\ UNCHANGED image_shape

(***************************************************************************)
(* generate_embeddings_batch (workers/embeddings/worker.py)                *)
(***************************************************************************)
\* the most menu items in a batch
MaxItems == 3

\* the count of calls of openai.Embedding.create stops growing here
MaxAttempts == 3

ItemIds == 1..MaxItems

\* the rows a select on menu_items can return: distinct ids in any order
ItemLists ==
    {l \in SeqsUpTo(ItemIds, MaxItems) :
        \A i, j \in 1..Len(l) : i # j => l[i] # l[j]}

NoBatch ==
    /\ batch_items = <<>>
    /\ gen_pc = "none"
    /\ attempts = 0
    /\ gen_ret = None
    /\ processed_count = 0
    /\ error_count = 0

\* lines 76-80: `if not items: return []`, else build the texts
GenEnter ==
    /\ gen_pc = "enter"
    /\ IF Len(batch_items) = 0
       THEN gen_pc' = "returned" /\ gen_ret' = [results |-> <<>>]
       ELSE gen_pc' = "create" /\ UNCHANGED gen_ret
    /\ UNCHANGED <<batch_items, attempts, processed_count, error_count>>

\* lines 82-111: openai.Embedding.create returns, raises RateLimitError or
\* raises another exception
EmbeddingCreate ==
    /\ gen_pc = "create"
    /\ attempts' = IF attempts < MaxAttempts THEN attempts + 1 ELSE attempts
    /\ \/ /\ gen_ret' = [results |->
                 [i \in 1..Len(batch_items) |->
                     [id |-> batch_items[i], embedding |-> "embedding",
                      model_version |-> "text-embedding-ada-002"]]]
          /\ processed_count' = processed_count + Len(batch_items)
          /\ gen_pc' = "returned"
          /\ UNCHANGED error_count
       \/ /\ gen_pc' = "backoff"
          /\ UNCHANGED <<gen_ret, processed_count, error_count>>
       \/ /\ error_count' = error_count + Len(batch_items)
          /\ gen_ret' = Raised("openai.Embedding.create")
          /\ gen_pc' = "raised"
          /\ UNCHANGED processed_count
    /\ UNCHANGED batch_items

\* lines 104-106: time.sleep(5), then the call of itself with the same items
BackOff ==
    /\ gen_pc = "backoff"
    /\ gen_pc' = "enter"
    /\ UNCHANGED <<batch_items, attempts, gen_ret, processed_count, error_count>>

(***************************************************************************)
(* backfill_all, process_pending_items and store_embeddings                *)
(* (workers/embeddings/worker.py)                                          *)
(***************************************************************************)
\* the limit of the select: at most this many rows in a batch
BATCH_SIZE == 100

\* backfill_all is followed until total_processed reaches this count
MaxTotal == 4

\* the columns an update of store_embeddings writes
Stored == [embedding |-> "embedding",
           embedding_model |-> "text-embedding-ada-002"]

\* .is_('embedding', 'null'): the ids of the rows without an embedding
Pending == {i \in ItemIds : menu_items[i] = None}

NoBackfill ==
    /\ menu_items = [i \in ItemIds |-> None]
    /\ bf_pc = "none"
    /\ stored_upto = 0
    /\ total_processed = 0

\* lines 133-142: the select of process_pending_items.  It returns up to
\* BATCH_SIZE pending rows in some order and generate_embeddings_batch is
\* called on them; or it returns no row, process_pending_items returns 0
\* and backfill_all leaves its loop; or it raises.
SelectPending ==
    /\ bf_pc = "select"
    /\ total_processed < MaxTotal
    /\ \/ /\ Pending # {}
          /\ \E l \in ItemLists :
                 /\ Range(l) \subseteq Pending
                 /\ Len(l) = Min(BATCH_SIZE, Cardinality(Pending))
                 /\ batch_items' = l
          /\ gen_pc' = "enter"
          /\ attempts' = 0
          /\ gen_ret' = None
          /\ bf_pc' = "process"
       \/ /\ Pending = {}
          /\ bf_pc' = "done"
          /\ UNCHANGED <<batch_items, gen_pc, attempts, gen_ret>>
       \/ /\ bf_pc' = "raised"
          /\ UNCHANGED <<batch_items, gen_pc, attempts, gen_ret>>
    /\ stored_upto' = 0
    /\ UNCHANGED <<menu_items, total_processed, processed_count, error_count>>

\* line 142: an exception of generate_embeddings_batch leaves
\* process_pending_items and backfill_all, neither has a try
GenerateRaised ==
    /\ bf_pc = "process"
    /\ gen_pc = "raised"
    /\ bf_pc' = "raised"
    /\ UNCHANGED <<menu_items, stored_upto, total_processed, embed_vars>>

\* lines 115-125: one pass of the loop of store_embeddings: the update of
\* the row succeeds, or raises and error_count grows by one
StoreEmbedding ==
    /\ bf_pc = "process"
    /\ gen_pc = "returned"
    /\ stored_upto < Len(gen_ret.results)
    /\ stored_upto' = stored_upto + 1
    /\ \/ /\ menu_items' = [menu_items EXCEPT
                 ![gen_ret.results[stored_upto + 1].id] = Stored]
          /\ UNCHANGED error_count
       \/ /\ error_count' = error_count + 1
          /\ UNCHANGED menu_items
    /\ UNCHANGED <<bf_pc, total_processed, batch_items, gen_pc, attempts,
                   gen_ret, processed_count>>

\* lines 147-148 and 157-164: process_pending_items returns len(results),
\* which is not 0; backfill_all adds it to total_processed, sleeps and
\* goes round its loop
BackfillContinue ==
    /\ bf_pc = "process"
    /\ gen_pc = "returned"
    /\ stored_upto = Len(gen_ret.results)
    /\ total_processed' = total_processed + Len(gen_ret.results)
    /\ bf_pc' = "select"
    /\ UNCHANGED <<menu_items, stored_upto, embed_vars>>

(***************************************************************************)
(* Specifications                                                          *)
(***************************************************************************)
\* One worker process running main() on the jobs table.
Init == WorkerInit /\ text_blocks = <<>> /\ sections_arg = <<>>
        /\ call = "none" /\ ret = None /\ NoImage /\ NoBatch /\ NoBackfill

Next ==
    \/ FetchPending(1) /\ UNCHANGED <<call_vars, image_vars, embed_vars,
                 backfill_vars>>
    \/ MarkRunning(1) /\ UNCHANGED <<call_vars, image_vars, embed_vars,
                 backfill_vars>>
    \/ ProcessPages(1) /\ UNCHANGED <<call_vars, image_vars, embed_vars,
                 backfill_vars>>
    \/ UploadResult(1) /\ UNCHANGED <<call_vars, image_vars, embed_vars,
                 backfill_vars>>
    \/ UpdateArtifact(1) /\ UNCHANGED <<call_vars, image_vars, embed_vars,
                 backfill_vars>>
    \/ EnqueueParse(1) /\ UNCHANGED <<call_vars, image_vars, embed_vars,
                 backfill_vars>>
    \/ MarkCompleted(1) /\ UNCHANGED <<call_vars, image_vars, embed_vars,
                 backfill_vars>>
    \/ MarkFailed(1) /\ UNCHANGED <<call_vars, image_vars, embed_vars,
                 backfill_vars>>
    \/ Sleep(1) /\ UNCHANGED <<call_vars, image_vars, embed_vars,
                 backfill_vars>>

Spec == Init /\ [][Next]_vars

\* the loop of main() always takes its next step
FairSpec == Spec /\ WF_vars(Next)

\* Several worker processes, each running main() on the same jobs table;
\* a step is one storage or database call of one of them.
WorkersNext ==
    \/ \E w \in Workers : FetchPending(w) /\ UNCHANGED <<call_vars, image_vars, embed_vars,
                 backfill_vars>>
    \/ \E w \in Workers : MarkRunning(w) /\ UNCHANGED <<call_vars, image_vars, embed_vars,
                 backfill_vars>>
    \/ \E w \in Workers : ProcessPages(w) /\ UNCHANGED <<call_vars, image_vars, embed_vars,
                 backfill_vars>>
    \/ \E w \in Workers : UploadResult(w) /\ UNCHANGED <<call_vars, image_vars, embed_vars,
                 backfill_vars>>
    \/ \E w \in Workers : UpdateArtifact(w) /\ UNCHANGED <<call_vars, image_vars, embed_vars,
                 backfill_vars>>
    \/ \E w \in Workers : EnqueueParse(w) /\ UNCHANGED <<call_vars, image_vars, embed_vars,
                 backfill_vars>>
    \/ \E w \in Workers : MarkCompleted(w) /\ UNCHANGED <<call_vars, image_vars, embed_vars,
                 backfill_vars>>
    \/ \E w \in Workers : MarkFailed(w) /\ UNCHANGED <<call_vars, image_vars, embed_vars,
                 backfill_vars>>
    \/ \E w \in Workers : Sleep(w) /\ UNCHANGED <<call_vars, image_vars, embed_vars,
                 backfill_vars>>

WorkersSpec == Init /\ [][WorkersNext]_vars

\* One call of a Menu Structurer method on a list of text blocks.
StructInit ==
    /\ CallInit
    /\ files = [j \in Jobs |-> <<>>]
    /\ status = [j \in Jobs |-> "pending"]
    /\ result = [j \in Jobs |-> None]
    /\ error_message = [j \in Jobs |-> None]
    /\ uploaded = [j \in Jobs |-> <<>>]
    /\ artifacts = [j \in Jobs |-> <<>>]
    /\ parse_jobs = [j \in Jobs |-> <<>>]
    /\ processed = [j \in Jobs |-> 0]
    /\ pc = [w \in Workers |-> "fetch"]
    /\ job = [w \in Workers |-> 0]
    /\ combined = [w \in Workers |-> None]
    /\ pending_error = [w \in Workers |-> None]
    /\ NoImage
    /\ NoBatch
    /\ NoBackfill

StructNext ==
    \/ CallDetectSections /\ UNCHANGED <<worker_vars, image_vars, embed_vars,
                 backfill_vars>>
    \/ CallExtractItems /\ UNCHANGED <<worker_vars, image_vars, embed_vars,
                 backfill_vars>>
    \/ CallExtractPrices /\ UNCHANGED <<worker_vars, image_vars, embed_vars,
                 backfill_vars>>
    \/ CallPostprocess /\ UNCHANGED <<worker_vars, image_vars, embed_vars,
                 backfill_vars>>

StructSpec == StructInit /\ [][StructNext]_vars

\* the worker variables while no worker runs
WorkerIdle ==
    /\ files = [j \in Jobs |-> <<>>]
    /\ status = [j \in Jobs |-> "pending"]
    /\ result = [j \in Jobs |-> None]
    /\ error_message = [j \in Jobs |-> None]
    /\ uploaded = [j \in Jobs |-> <<>>]
    /\ artifacts = [j \in Jobs |-> <<>>]
    /\ parse_jobs = [j \in Jobs |-> <<>>]
    /\ processed = [j \in Jobs |-> 0]
    /\ pc = [w \in Workers |-> "fetch"]
    /\ job = [w \in Workers |-> 0]
    /\ combined = [w \in Workers |-> None]
    /\ pending_error = [w \in Workers |-> None]

NoCall ==
    text_blocks = <<>> /\ sections_arg = <<>> /\ call = "none" /\ ret = None

\* One call of preprocess on an image of a given shape.
PreprocessInit ==
    /\ image_shape \in Shapes
    /\ thresh_shape = None
    /\ WorkerIdle /\ NoCall /\ NoBatch /\ NoBackfill

PreprocessNext ==
    Preprocess /\ UNCHANGED <<worker_vars, call_vars, embed_vars,
                 backfill_vars>>

PreprocessSpec == PreprocessInit /\ [][PreprocessNext]_vars

\* One call of generate_embeddings_batch on a list of menu items.
EmbedInit ==
    /\ batch_items \in ItemLists
    /\ gen_pc = "enter"
    /\ attempts = 0
    /\ gen_ret = None
    /\ processed_count = 0
    /\ error_count = 0
    /\ WorkerIdle /\ NoCall /\ NoImage /\ NoBackfill

EmbedNext ==
    \/ GenEnter /\ UNCHANGED <<worker_vars, call_vars, image_vars,
                 backfill_vars>>
    \/ EmbeddingCreate /\ UNCHANGED <<worker_vars, call_vars, image_vars,
                 backfill_vars>>
    \/ BackOff /\ UNCHANGED <<worker_vars, call_vars, image_vars,
                 backfill_vars>>

EmbedSpec == EmbedInit /\ [][EmbedNext]_vars

\* the call always takes its next step
FairEmbedSpec == EmbedSpec /\ WF_vars(EmbedNext)

\* One call of backfill_all on a table of menu items, some of which have
\* an embedding already.
BackfillInit ==
    /\ menu_items \in [ItemIds -> {None, Stored}]
    /\ bf_pc = "select"
    /\ stored_upto = 0
    /\ total_processed = 0
    /\ NoBatch
    /\ WorkerIdle /\ NoCall /\ NoImage

BackfillNext ==
    \/ SelectPending /\ UNCHANGED <<worker_vars, call_vars, image_vars>>
    \/ /\ bf_pc = "process"
       /\ GenEnter
       /\ UNCHANGED <<worker_vars, call_vars, image_vars, backfill_vars>>
    \/ /\ bf_pc = "process"
       /\ EmbeddingCreate
       /\ UNCHANGED <<worker_vars, call_vars, image_vars, backfill_vars>>
    \/ /\ bf_pc = "process"
       /\ BackOff
       /\ UNCHANGED <<worker_vars, call_vars, image_vars, backfill_vars>>
    \/ GenerateRaised /\ UNCHANGED <<worker_vars, call_vars, image_vars>>
    \/ StoreEmbedding /\ UNCHANGED <<worker_vars, call_vars, image_vars>>
    \/ BackfillContinue /\ UNCHANGED <<worker_vars, call_vars, image_vars>>

BackfillSpec == BackfillInit /\ [][BackfillNext]_vars

(***************************************************************************)
(* Properties of the worker loop and the Document Assembler                *)
(***************************************************************************)
Terminal == {"completed", "failed"}

\* C1: every job that main has marked `running` is eventually marked
\* `completed` (with the Document Result) or `failed` (with an error
\* message), also when storage or database calls raise.
C1_RunningJobIsResolved ==
    \A j \in Jobs :
        (status[j] = "running") ~>
            (\/ status[j] = "completed" /\ result[j] # None
             \/ status[j] = "failed" /\ error_message[j] # None)

\* C2: a page whose preprocessing or recognition fails is dropped and the
\* other pages still make a Document Result; process_ocr_job raises for a
\* failing page only when that page is the only page of the document.
C2_PageFailureDropsOnlyThatPage ==
    \A w \in Workers :
        (pc[w] = "mark_failed" /\ pending_error[w] = Raised("page"))
            => Len(files[job[w]]) = 1

\* C3: a Document Result without pages is never uploaded, never written to
\* the artifact, never enqueued as a parse job and never stored with the
\* status `completed`: the job of a file that decodes to no page fails.
C3_EmptyDocumentFails ==
    \A j \in Jobs :
        /\ \A i \in 1..Len(uploaded[j]) : Len(uploaded[j][i].pages) > 0
        /\ \A i \in 1..Len(artifacts[j]) : Len(artifacts[j][i].pages) > 0
        /\ \A i \in 1..Len(parse_jobs[j]) : Len(parse_jobs[j][i].pages) > 0
        /\ status[j] = "completed" => Len(result[j].pages) > 0

\* C4: the status of a job only moves pending -> running -> completed or
\* pending -> running -> failed; a completed or failed job keeps its status
\* and process_ocr_job is never entered for it again.
C4_StatusOnlyMovesForward ==
    [][\A j \in Jobs :
          /\ status'[j] # status[j] =>
                 <<status[j], status'[j]>> \in {<<"pending", "running">>,
                                                <<"running", "completed">>,
                                                <<"running", "failed">>}
          /\ status[j] \in Terminal =>
                 /\ status'[j] = status[j]
                 /\ processed'[j] = processed[j]
          /\ processed'[j] # processed[j] => status[j] = "running"]_vars

\* a job has failed, and the worker has gone on to poll and sleep
C4_Witness ==
    \E j \in Jobs : status[j] = "failed" /\ processed[j] = 1 /\ pc[1] = "sleep"

RECURSIVE ItemsBefore(_, _)
\* the number of items on the pages before page k
ItemsBefore(pages, k) ==
    IF k <= 1 THEN 0
    ELSE ItemsBefore(pages, k - 1) + Len(pages[k - 1].items)

RECURSIVE TextBefore(_, _)
\* the number of characters the combined text holds before the text of
\* page k: the earlier page texts, each followed by a blank line
TextBefore(pages, k) ==
    IF k <= 1 THEN 0
    ELSE TextBefore(pages, k - 1) + Len(pages[k - 1].full_text) + 2

IsPageOrderAssembly(d) ==
    LET n == Len(d.pages)
    IN  /\ d.total_pages = n
        /\ \A k \in 1..n : d.pages[k].page_number = k
        /\ Len(d.all_items) = ItemsBefore(d.pages, n + 1)
        /\ \A k \in 1..n : \A i \in 1..Len(d.pages[k].items) :
               d.all_items[ItemsBefore(d.pages, k) + i] = d.pages[k].items[i]
        /\ Len(d.total_text) = IF n = 0 THEN 0 ELSE TextBefore(d.pages, n + 1) - 2
        /\ \A k \in 1..n : \A i \in 1..Len(d.pages[k].full_text) :
               d.total_text[TextBefore(d.pages, k) + i] = d.pages[k].full_text[i]
        /\ \A k \in 2..n :
               /\ d.total_text[TextBefore(d.pages, k) - 1] = "\n"
               /\ d.total_text[TextBefore(d.pages, k)] = "\n"

\* C8: the Document Result process_ocr_job builds is its Page Results put
\* together in page order: total_pages counts them, all_items is their
\* items one page after the other, the combined text is their texts with a
\* blank line between two pages.
C8_DocumentResultIsPageOrderAssembly ==
    /\ \A w \in Workers : combined[w] # None => IsPageOrderAssembly(combined[w])
    /\ \A j \in Jobs : status[j] = "completed" => IsPageOrderAssembly(result[j])

\* the two-page document: three items on page 1, two on page 2
C8_Witness ==
    \E j \in Jobs :
        /\ status[j] = "completed"
        /\ result[j].total_pages = 2
        /\ Len(result[j].pages[1].items) = 3
        /\ Len(result[j].pages[2].items) = 2
        /\ Len(result[j].all_items) = 5

(***************************************************************************)
(* Properties of the Menu Structurer                                       *)
(***************************************************************************)
\* the index of the first block of text_blocks that holds a keyword of the
\* section, 0 when no block does
FirstMention(section) ==
    LET entry == CHOOSE k \in 1..Len(section_keywords) :
                     section_keywords[k].section = section
        keywords == section_keywords[entry].keywords
        mentions == {b \in 1..Len(text_blocks) :
                        \E i \in 1..Len(keywords) :
                            Contains(keywords[i], lower(text_blocks[b].text))}
    IN  IF mentions = {} THEN 0
        ELSE CHOOSE b \in mentions : \A c \in mentions : b <= c

\* C5: the list detect_sections returns holds no label twice, and its
\* labels stand in the order of the first block that mentions each.
C5_SectionsUniqueInFirstSeenOrder ==
    call = "detect_sections" =>
        /\ \A i \in 1..Len(ret) : FirstMention(ret[i]) > 0
        /\ \A i \in 1..Len(ret) : \A j \in 1..Len(ret) :
               i < j => /\ ret[i] # ret[j]
                        /\ FirstMention(ret[i]) <= FirstMention(ret[j])

\* salads is mentioned by the first and again by the third block
C5_Witness ==
    /\ call = "detect_sections"
    /\ text_blocks = <<b_CaesarSalad9, b_Starters, b_SoupSalad>>
    /\ ret = <<s_salads, s_appetizers, s_soups>>

StartersSaladBurger == <<b_Starters, b_CaesarSalad9, b_Burger12>>

\* C6 as stated: detect_sections on "Starters", "Caesar Salad $9",
\* "Burger $12" returns exactly [appetizers, salads].
C6_StartersSaladBurger_AsStated ==
    (call = "detect_sections" /\ text_blocks = StartersSaladBurger)
        => ret = <<s_appetizers, s_salads>>

\* C6, amended: detect_sections on "Starters", "Caesar Salad $9",
\* "Burger $12" returns exactly [appetizers, salads, mains], "burger" being
\* a keyword of mains.
C6_StartersSaladBurger ==
    (call = "detect_sections" /\ text_blocks = StartersSaladBurger)
        => ret = <<s_appetizers, s_salads, s_mains>>

C6_Witness ==
    /\ call = "detect_sections"
    /\ text_blocks = StartersSaladBurger
    /\ Len(ret) = 3

\* the indices of the blocks that look like an item: more than three
\* characters, one of them a letter
ItemBlocks ==
    {i \in 1..Len(text_blocks) :
        /\ Len(text_blocks[i].text) > 3
        /\ \E c \in 1..Len(text_blocks[i].text) : isalpha(text_blocks[i].text[c])}

\* the index of the n-th block that looks like an item
NthItemBlock(n) ==
    CHOOSE i \in ItemBlocks : Cardinality({m \in ItemBlocks : m <= i}) = n

\* the price the claim attaches to the item of block i
WindowPrice(i) ==
    LET last == IF i + 2 < Len(text_blocks) THEN i + 2 ELSE Len(text_blocks)
        priced == {j \in i..last : extract_prices(text_blocks[j].text) # <<>>}
    IN  IF priced = {} THEN None
        ELSE extract_prices(text_blocks[CHOOSE j \in priced :
                                \A m \in priced : j <= m].text)[1]

BurgerFriesPriceSalad == <<b_Burger, b_Fries, b_1299, b_Salad>>

\* C7: extract_items makes one item of every block that looks like an item,
\* and its price is the first price of the first block among that block and
\* the next two that has a price, or None; in "Burger", "Fries", "$12.99",
\* "Salad" the item Burger gets $12.99 and the item Salad gets no price.
C7_PriceFromThreeBlockWindow ==
    call = "extract_items" =>
        /\ Len(ret) = Cardinality(ItemBlocks)
        /\ \A n \in 1..Len(ret) :
               /\ ret[n].name = text_blocks[NthItemBlock(n)].text
               /\ ret[n].price = WindowPrice(NthItemBlock(n))
        /\ text_blocks = BurgerFriesPriceSalad =>
               /\ ret[1].name = t_Burger
               /\ ret[1].price # None
               /\ ret[1].price.raw = t_1299
               /\ ret[1].price.value = 1299
               /\ ret[3].name = t_Salad
               /\ ret[3].price = None

C7_Witness ==
    /\ call = "extract_items"
    /\ text_blocks = BurgerFriesPriceSalad
    /\ Len(ret) = 3

RECURSIVE CharsBefore(_, _)
\* the number of characters full_text holds before the text of block k:
\* the earlier texts, each followed by a newline
CharsBefore(blocks, k) ==
    IF k <= 1 THEN 0
    ELSE CharsBefore(blocks, k - 1) + Len(blocks[k - 1].text) + 1

\* C9: postprocess returns the blocks it was given, unchanged and in order,
\* and full_text is the text of every block, in order, with a newline
\* between two blocks, whether or not a block made an item.
C9_PostprocessKeepsEveryBlock ==
    call = "postprocess" =>
        LET n == Len(text_blocks)
        IN  /\ ret.text_blocks = text_blocks
            /\ ret.block_count = n
            /\ Len(ret.full_text) =
                   IF n = 0 THEN 0 ELSE CharsBefore(text_blocks, n + 1) - 1
            /\ \A k \in 1..n : \A i \in 1..Len(text_blocks[k].text) :
                   ret.full_text[CharsBefore(text_blocks, k) + i]
                       = text_blocks[k].text[i]
            /\ \A k \in 2..n : ret.full_text[CharsBefore(text_blocks, k)] = "\n"

\* "Tea" and "$12.99" make no item
C9_Witness ==
    /\ call = "postprocess"
    /\ text_blocks = <<b_Tea, b_Burger, b_1299>>
    /\ Len(ret.items) = 1
    /\ Len(ret.text_blocks) = 3

\* C10: postprocess of an empty block list returns a Page Result with no
\* price, no section, no item and the empty string as full_text.
C10_EmptyPage ==
    (call = "postprocess" /\ text_blocks = <<>>) =>
        /\ ret.prices = <<>>
        /\ ret.sections = <<>>
        /\ ret.items = <<>>
        /\ ret.full_text = <<>>

C10_Witness ==
    /\ call = "postprocess"
    /\ text_blocks = <<>>
    /\ ret.block_count = 0

(***************************************************************************)
(* extract_prices: order and content of the returned list                  *)
(***************************************************************************)
\* the text extract_prices is called on
PriceText ==
    join(<<"\n">>, [i \in 1..Len(text_blocks) |-> text_blocks[i].text])

\* the index in price_patterns of the pattern a price came from, read off
\* its raw text: $amount, amount USD, €amount, £amount
PatternOf(price) ==
    IF price.raw[1] = "$" THEN 1
    ELSE IF price.raw[1] = "€" THEN 3
    ELSE IF price.raw[1] = "£" THEN 4
    ELSE 2

\* the indices where `symbol`, optional whitespace and a digit begin
SymbolMatches(text, symbol) ==
    {p \in 1..Len(text) :
        /\ text[p] = symbol
        /\ \E q \in (p + 1)..Len(text) :
               /\ IsDigit(text[q])
               /\ \A s \in (p + 1)..(q - 1) : IsSpace(text[s])}

\* the indices where a "USD" (in any case) begins that follows a digit and
\* optional whitespace
UsdMatches(text) ==
    {p \in 2..(Len(text) - 2) :
        /\ lower(SubSeq(text, p, p + 2)) = <<"u", "s", "d">>
        /\ \E q \in 1..(p - 1) :
               /\ IsDigit(text[q])
               /\ \A s \in (q + 1)..(p - 1) : IsSpace(text[s])}

PricesOfPattern(prices, k) ==
    {i \in 1..Len(prices) : PatternOf(prices[i]) = k}

\* C11: the list extract_prices returns is the concatenation, in the fixed
\* pattern order $amount, amount USD, €amount, £amount, of each pattern's
\* matches from left to right: it is ordered by pattern first and by
\* position within a pattern only, every match of every pattern is in it
\* once, and overlapping matches of two patterns are both kept ("$10 USD"
\* gives "$10" and "10 USD").
C11_PricesInPatternOrder ==
    call = "extract_prices" =>
        /\ \A i, j \in 1..Len(ret) : i < j =>
               \/ PatternOf(ret[i]) < PatternOf(ret[j])
               \/ /\ PatternOf(ret[i]) = PatternOf(ret[j])
                  /\ ret[i].position < ret[j].position
        /\ {ret[i].position + 1 : i \in PricesOfPattern(ret, 1)}
               = SymbolMatches(PriceText, "$")
        /\ {ret[i].position + 1 : i \in PricesOfPattern(ret, 3)}
               = SymbolMatches(PriceText, "€")
        /\ {ret[i].position + 1 : i \in PricesOfPattern(ret, 4)}
               = SymbolMatches(PriceText, "£")
        /\ {ret[i].position + Len(ret[i].raw) : i \in PricesOfPattern(ret, 2)}
               = {p + 2 : p \in UsdMatches(PriceText)}
        /\ text_blocks = <<b_10USD>> =>
               [i \in 1..Len(ret) |-> ret[i].raw]
                   = << <<"$", "1", "0">>, <<"1", "0", " ", "U", "S", "D">> >>
        /\ text_blocks = <<b_5USD3>> =>
               [i \in 1..Len(ret) |-> ret[i].position] = <<6, 0>>

\* "5 USD $3" then "$10 USD": four prices, the second later in the text
\* than the third, the second and the fourth overlapping
C11_Witness ==
    /\ call = "extract_prices"
    /\ text_blocks = <<b_5USD3, b_10USD>>
    /\ [i \in 1..Len(ret) |-> ret[i].position] = <<6, 9, 0, 10>>
    /\ ret[2].position + Len(ret[2].raw) > ret[4].position

\* the amount written in a raw match, in hundredths: its digits, times one
\* hundred when it has no decimal separator
AmountOf(raw) ==
    LET digits == SelectSeq(raw, IsDigit)
    IN  IF \E i \in 1..Len(raw) : raw[i] \in {".", ","}
        THEN DigitsToNat(digits) ELSE 100 * DigitsToNat(digits)

\* C12: each price carries the currency of the pattern that matched it (USD
\* for $amount and amount USD, EUR for €amount, GBP for £amount) and its
\* value is the amount with a decimal comma read as a decimal point:
\* "€10,99" is 10.99 EUR, "$8.50" is 8.50 USD, "£5" is 5.0 GBP.
C12_CurrencyAndDecimalComma ==
    call = "extract_prices" =>
        /\ \A i \in 1..Len(ret) :
               /\ ret[i].currency =
                      (IF PatternOf(ret[i]) = 3 THEN "EUR"
                       ELSE IF PatternOf(ret[i]) = 4 THEN "GBP" ELSE "USD")
               /\ ret[i].value = AmountOf(ret[i].raw)
        /\ text_blocks = <<b_Eur1099>> =>
               /\ Len(ret) = 1
               /\ ret[1].value = 1099 /\ ret[1].currency = "EUR"
        /\ text_blocks = <<b_850>> =>
               /\ Len(ret) = 1
               /\ ret[1].value = 850 /\ ret[1].currency = "USD"
        /\ text_blocks = <<b_Gbp5>> =>
               /\ Len(ret) = 1
               /\ ret[1].value = 500 /\ ret[1].currency = "GBP"

C12_Witness ==
    /\ call = "extract_prices"
    /\ text_blocks = <<b_Gbp5, b_Eur1099, b_850>>
    /\ [i \in 1..Len(ret) |-> ret[i].currency] = <<"USD", "EUR", "GBP">>
    /\ [i \in 1..Len(ret) |-> ret[i].value] = <<850, 1099, 500>>

(***************************************************************************)
(* extract_items: the section an item carries                              *)
(***************************************************************************)
\* the entries of the header list whose name the lower-cased text of block i
\* contains
HeaderHits(i) ==
    {k \in 1..Len(header_sections) :
        Contains(header_sections[k], lower(text_blocks[i].text))}

\* the last name, in list order, that block i contains
LastHit(i) ==
    header_sections[CHOOSE k \in HeaderHits(i) : \A m \in HeaderHits(i) : m <= k]

\* the blocks up to block i that contain a header name
HeaderBlocksUpTo(i) == {h \in 1..i : HeaderHits(h) # {}}

LastHeaderBlockUpTo(i) ==
    CHOOSE h \in HeaderBlocksUpTo(i) : \A m \in HeaderBlocksUpTo(i) : m <= h

\* C14: when the lower-cased text of a fragment contains more than one name
\* of the header list, current_section after it is the last matching name
\* in list order (appetizers, mains, desserts, drinks, salads, soups), and a
\* fragment that contains none leaves current_section unchanged: an item
\* carries the last matching name of the latest fragment, up to its own,
\* that contains a name.
C14_LastMatchingHeaderWins ==
    call = "extract_items" =>
        /\ \A n \in 1..Len(ret) :
               HeaderBlocksUpTo(NthItemBlock(n)) # {} =>
                   ret[n].section
                       = LastHit(LastHeaderBlockUpTo(NthItemBlock(n)))
        /\ text_blocks = <<b_SoupsSalads, b_Fries>> =>
               ret[1].section = s_soups /\ ret[2].section = s_soups
        /\ text_blocks = <<b_DessertsDrinks, b_Fries>> =>
               ret[1].section = s_drinks /\ ret[2].section = s_drinks

\* "Soups and Salads" contains salads (fifth) and soups (sixth)
C14_Witness ==
    /\ call = "extract_items"
    /\ text_blocks = <<b_SoupsSalads, b_Fries>>
    /\ HeaderHits(1) = {5, 6}
    /\ HeaderHits(2) = {}
    /\ ret[2].name = t_Fries
    /\ ret[2].section = s_soups

\* C15: the header check and the item check both run on every fragment: a
\* fragment that contains a header name and looks like an item is emitted
\* as an item, and the section of that item is a name the fragment itself
\* contains.
C15_HeaderFragmentIsAlsoAnItem ==
    call = "extract_items" =>
        \A i \in ItemBlocks :
            HeaderHits(i) # {} =>
                LET n == Cardinality({m \in ItemBlocks : m <= i})
                IN  /\ n <= Len(ret)
                    /\ ret[n].name = text_blocks[i].text
                    /\ ret[n].bbox = text_blocks[i].bbox
                    /\ ret[n].section
                           \in {header_sections[k] : k \in HeaderHits(i)}

\* "Mains" then "Desserts & Drinks": the second fragment is an item of the
\* section it sets, not of the section before it
C15_Witness ==
    /\ call = "extract_items"
    /\ text_blocks = <<b_Mains, b_DessertsDrinks>>
    /\ Len(ret) = 2
    /\ ret[1].name = t_Mains /\ ret[1].section = s_mains
    /\ ret[2].name = t_DessertsDrinks /\ ret[2].section = s_drinks

\* C16: every item emitted before the first fragment that contains a header
\* name carries sections[0], also when the keyword of that section first
\* appears in a later fragment, or "unknown" when sections is empty.
C16_ItemsBeforeFirstHeader ==
    call = "extract_items" =>
        \A n \in 1..Len(ret) :
            HeaderBlocksUpTo(NthItemBlock(n)) = {} =>
                ret[n].section = (IF Len(sections_arg) > 0
                                  THEN sections_arg[1] ELSE s_unknown)

\* "Fries" then "Mains": mains is detected in the second fragment only
C16_Witness ==
    /\ call = "extract_items"
    /\ text_blocks = <<b_Fries, b_Mains>>
    /\ sections_arg = <<s_mains>>
    /\ detect_sections(<<b_Fries>>) = <<>>
    /\ ret[1].name = t_Fries
    /\ ret[1].section = s_mains

\* C18: in the result of postprocess the section of every item is a member
\* of the detected sections list, or is "unknown", and "unknown" only when
\* the detected list is empty.
C18_ItemSectionIsDetected ==
    call = "postprocess" =>
        \A n \in 1..Len(ret.items) :
            \/ InList(ret.items[n].section, ret.sections)
            \/ ret.items[n].section = s_unknown /\ ret.sections = <<>>

\* "Mains" then "Desserts & Drinks": the header check sets drinks, which
\* the second fragment also made detect_sections add
C18_Witness ==
    /\ call = "postprocess"
    /\ text_blocks = <<b_Mains, b_DessertsDrinks>>
    /\ ret.sections = <<s_mains, s_desserts, s_drinks>>
    /\ ret.items[2].section = s_drinks

(***************************************************************************)
(* Several workers; what a job that did not complete leaves behind         *)
(***************************************************************************)
\* C19: with two or more worker processes on the same jobs table each
\* pending OCR job is processed by at most one worker: process_ocr_job runs
\* at most once per job and at most one parse job is enqueued per OCR job.
C19_JobProcessedByOneWorker ==
    \A j \in Jobs :
        /\ processed[j] <= 1
        /\ Len(parse_jobs[j]) <= 1

\* C20: an OCR job that ends failed, or stays running with no worker
\* holding it, has had no result uploaded, none written to the artifact
\* record and no parse job enqueued, whichever call of upload, artifact
\* update, parse enqueue and mark completed raised.
C20_OnlyCompletedJobHasOutput ==
    \A j \in Jobs :
        \/ status[j] = "failed"
        \/ status[j] = "running" /\ \A w \in Workers : job[w] # j
        => /\ uploaded[j] = <<>>
           /\ artifacts[j] = <<>>
           /\ parse_jobs[j] = <<>>

(***************************************************************************)
(* preprocess: upscaling                                                   *)
(***************************************************************************)
\* C13: preprocess upscales exactly when height < 1200 or width < 900, with
\* the one factor max(1200/height, 900/width) for both dimensions (each new
\* dimension is the old one times the larger quotient, short of it by less
\* than two pixels); 800x600 is upscaled and 1600x1200 keeps its shape; and
\* after upscaling the height is at least 1200 and the width at least 900.
C13_UpscaleToMinimumSize ==
    thresh_shape # None =>
        LET height == image_shape.height
            width == image_shape.width
            by_height == 1200 * width >= 900 * height
            n == IF by_height THEN 1200 ELSE 900
            d == IF by_height THEN height ELSE width
        IN  /\ thresh_shape.resized <=> (height < 1200 \/ width < 900)
            /\ ~thresh_shape.resized =>
                   thresh_shape.height = height /\ thresh_shape.width = width
            /\ thresh_shape.resized =>
                   /\ thresh_shape.height * d <= height * n
                   /\ height * n < (thresh_shape.height + 2) * d
                   /\ thresh_shape.width * d <= width * n
                   /\ width * n < (thresh_shape.width + 2) * d
                   /\ thresh_shape.height >= 1200
                   /\ thresh_shape.width >= 900
            /\ (height = 800 /\ width = 600) => thresh_shape.resized
            /\ (height = 1600 /\ width = 1200) => ~thresh_shape.resized

(***************************************************************************)
(* generate_embeddings_batch: rate limiting                                *)
(***************************************************************************)
\* C17: generate_embeddings_batch terminates also when every call of the
\* embedding API raises a rate-limit error: a call that has reached the API
\* request returns or raises in the end.
C17_GivesUpUnderRateLimiting ==
    (gen_pc = "create") ~> (gen_pc \in {"returned", "raised"})

(***************************************************************************)
(* backfill_all: what a returned count says about the table                *)
(***************************************************************************)
\* the rows that were pending when process_pending_items made its select:
\* the selected rows were pending then, and no row loses its embedding
PendingAtSelect == Pending \cup Range(batch_items)

\* C21: every call of process_pending_items that returns a count n > 0
\* leaves exactly n fewer items with a null embedding than it found, also
\* when storing an embedding fails, so that the number of pending items
\* decreases on every iteration of backfill_all.
C21_ReturnedCountIsPendingDecrease ==
    (bf_pc = "process" /\ gen_pc = "returned"
        /\ stored_upto = Len(gen_ret.results)) =>
        (Len(gen_ret.results) > 0 =>
            Cardinality(Pending)
                = Cardinality(PendingAtSelect) - Len(gen_ret.results))
====
